---- MODULE Spec2Model ----
(***************************************************************************)
(* The streaming chunk-wise validator of runner.py: the reference block    *)
(* model (file1) and the output of the item under test (file2) are read    *)
(* line by line, file2 is exploded and sorted one z-chunk at a time and    *)
(* compared with file1, and the compression is printed on success.         *)
(***************************************************************************)
EXTENDS Integers, Sequences, FiniteSets, TLC

VARIABLES
    file1,                          \* lines of the input block model csv
    file2,                          \* lines of out.csv, the item's output
    pos1,                           \* lines of file1 consumed by readline()
    pos2,                           \* lines of file2 consumed by readline()
    x_count, y_count, z_count,      \* ints[0..2] of the header
    parent_size_x, parent_size_y, parent_size_z,   \* ints[3..5]
    block_count_f1,
    block_count_f2,
    line_f1, line_count_f1,
    line_f2, line_count_f2,
    line_count_f2_last_chunk_end,
    z,                              \* the value of range(0, z_count, parent_size_z)
    chunk_list,
    e_idx,                          \* position of "for e in chunk_list"
    stdout,
    stderr,
    exit_status,                    \* -1 while the script runs
    pc

vars == << file1, file2, pos1, pos2, x_count, y_count, z_count,
           parent_size_x, parent_size_y, parent_size_z,
           block_count_f1, block_count_f2, line_f1, line_count_f1,
           line_f2, line_count_f2, line_count_f2_last_chunk_end,
           z, chunk_list, e_idx, stdout, stderr, exit_status, pc >>

(***************************************************************************)
(* Bounds of the model.                                                    *)
(***************************************************************************)
MaxLines == 3                       \* longest candidate file, in lines

(***************************************************************************)
(* Lines of text.  A line is a record: its kind (a "# ..." header or       *)
(* comment, a data line with a last comma, the empty string readline()     *)
(* gives at end of file), the integers before the last comma and the raw   *)
(* text after it, one character per element.                               *)
(***************************************************************************)
HeaderLine(h) == [k |-> "header", ints |-> h, dom |-> << >>]
CommentLine   == [k |-> "comment", ints |-> << >>, dom |-> << >>]
EmptyString   == [k |-> "eof", ints |-> << >>, dom |-> << >>]
DataLine(x, y, zz, sx, sy, sz, d) ==
    [k |-> "data", ints |-> <<x, y, zz, sx, sy, sz>>, dom |-> d]

Range(s) == { s[i] : i \in DOMAIN s }

(* str.strip("' \n\r"): drop the leading and trailing characters of the    *)
(* set, keep everything between.                                           *)
StripChars == { "'", " ", "\n", "\r" }

RECURSIVE lstrip(_)
lstrip(d) ==
    IF d # << >> /\ Head(d) \in StripChars THEN lstrip(Tail(d)) ELSE d

RECURSIVE rstrip(_)
rstrip(d) ==
    IF d # << >> /\ d[Len(d)] \in StripChars
    THEN rstrip(SubSeq(d, 1, Len(d) - 1))
    ELSE d

strip(d) == rstrip(lstrip(d))

(***************************************************************************)
(* Errors written to stderr, one record per message.                       *)
(***************************************************************************)
Error(kind, line, cell, cand, ref) ==
    [kind |-> kind, line |-> line, cell |-> cell, cand |-> cand, ref |-> ref]

ErrorAt(kind, line) == Error(kind, line, << >>, << >>, << >>)

(***************************************************************************)
(* The state of the script as one record, so that every step is a function *)
(* from state to state.                                                    *)
(***************************************************************************)
State ==
    [ file1 |-> file1, file2 |-> file2, pos1 |-> pos1, pos2 |-> pos2,
      x_count |-> x_count, y_count |-> y_count, z_count |-> z_count,
      parent_size_x |-> parent_size_x, parent_size_y |-> parent_size_y,
      parent_size_z |-> parent_size_z,
      block_count_f1 |-> block_count_f1, block_count_f2 |-> block_count_f2,
      line_f1 |-> line_f1, line_count_f1 |-> line_count_f1,
      line_f2 |-> line_f2, line_count_f2 |-> line_count_f2,
      line_count_f2_last_chunk_end |-> line_count_f2_last_chunk_end,
      z |-> z, chunk_list |-> chunk_list, e_idx |-> e_idx,
      stdout |-> stdout, stderr |-> stderr, exit_status |-> exit_status,
      pc |-> pc ]

Becomes(t) ==
    /\ file1' = t.file1 /\ file2' = t.file2
    /\ pos1' = t.pos1 /\ pos2' = t.pos2
    /\ x_count' = t.x_count /\ y_count' = t.y_count /\ z_count' = t.z_count
    /\ parent_size_x' = t.parent_size_x
    /\ parent_size_y' = t.parent_size_y
    /\ parent_size_z' = t.parent_size_z
    /\ block_count_f1' = t.block_count_f1
    /\ block_count_f2' = t.block_count_f2
    /\ line_f1' = t.line_f1 /\ line_count_f1' = t.line_count_f1
    /\ line_f2' = t.line_f2 /\ line_count_f2' = t.line_count_f2
    /\ line_count_f2_last_chunk_end' = t.line_count_f2_last_chunk_end
    /\ z' = t.z /\ chunk_list' = t.chunk_list /\ e_idx' = t.e_idx
    /\ stdout' = t.stdout /\ stderr' = t.stderr
    /\ exit_status' = t.exit_status /\ pc' = t.pc

(* the error is printed but the script goes on to print its result *)
sys_exit_falls_through(s, code, err) ==
    [s EXCEPT !.pc = "result", !.stderr = Append(@, err)]

(* print(..., file=stderr) followed by sys.exit(code) *)
sys_exit(s, code, err) ==
    [s EXCEPT !.pc = "failed", !.exit_status = code,
              !.stderr = Append(@, err)]

(* a reader that hands every line on, comments included *)
read_every_line(file, pos, line_count) ==
    IF pos >= Len(file)
    THEN [line |-> EmptyString, pos |-> pos, line_count |-> line_count + 1]
    ELSE [line |-> file[pos + 1], pos |-> pos + 1,
          line_count |-> line_count + 1]

(***************************************************************************)
(* read_next_line_of_input: readline() until a line that is neither a      *)
(* comment nor blank, or the empty string of end of file; line_count is    *)
(* incremented for every readline(), the last one included.                *)
(***************************************************************************)
RECURSIVE read_next_line_of_input(_, _, _)
read_next_line_of_input(file, pos, line_count) ==
    IF pos >= Len(file)
    THEN [line |-> EmptyString, pos |-> pos, line_count |-> line_count + 1]
    ELSE IF file[pos + 1].k \in {"header", "comment"}
         THEN read_next_line_of_input(file, pos + 1, line_count + 1)
         ELSE [line |-> file[pos + 1], pos |-> pos + 1,
               line_count |-> line_count + 1]

(***************************************************************************)
(* parse_line: the record of a data line, or the error it exits with.      *)
(***************************************************************************)
parse_line(line, line_count, psx, psy, psz) ==
    IF line.k # "data"
    THEN [ok |-> FALSE, err |-> ErrorAt("format", line_count)]
    ELSE IF \E i \in DOMAIN line.ints : line.ints[i] \notin Int
    THEN [ok |-> FALSE, err |-> ErrorAt("ValueError", line_count)]
    ELSE IF Len(line.ints) < 6
    THEN [ok |-> FALSE, err |-> ErrorAt("IndexError", line_count)]
    ELSE IF line.ints[4] < 0 \/ line.ints[5] < 0 \/ line.ints[6] < 0
    THEN [ok |-> FALSE, err |-> ErrorAt("positive_sizes_only", line_count)]
    ELSE IF line.ints[4] > psx \/ line.ints[5] > psy \/ line.ints[6] > psz
    THEN [ok |-> FALSE, err |-> ErrorAt("too_large", line_count)]
    ELSE [ok |-> TRUE, x |-> line.ints[1], y |-> line.ints[2],
          z |-> line.ints[3], xs |-> line.ints[4], ys |-> line.ints[5],
          zs |-> line.ints[6], domain |-> strip(line.dom)]

(***************************************************************************)
(* get_header_info_of_file1 and parse_line1_of_file1: the first line of    *)
(* file1 is "# x,y,z,px,py,pz".                                            *)
(***************************************************************************)
parse_line1_of_file1(s, line, line_count) ==
    IF line.k \notin {"header", "comment"}
    THEN sys_exit(s, 1, ErrorAt("expected_header", line_count))
    ELSE IF line.k = "comment"
    THEN sys_exit(s, 1, ErrorAt("ValueError", line_count))
    ELSE IF Len(line.ints) # 6
    THEN sys_exit(s, 1, ErrorAt("expecting_six_integers", line_count))
    ELSE [s EXCEPT !.x_count = line.ints[1], !.y_count = line.ints[2],
                   !.z_count = line.ints[3],
                   !.block_count_f1 =
                       line.ints[1] * line.ints[2] * line.ints[3],
                   !.parent_size_x = line.ints[4],
                   !.parent_size_y = line.ints[5],
                   !.parent_size_z = line.ints[6],
                   !.pc = "first"]

get_header_info_of_file1(s) ==
    IF Len(s.file1) = 0
    THEN sys_exit(s, 100, ErrorAt("unexpected_end_of_input", s.line_count_f1))
    ELSE parse_line1_of_file1([s EXCEPT !.pos1 = 1], s.file1[1],
                              s.line_count_f1)

(***************************************************************************)
(* The first line of file2 is read before the loop over the chunks.        *)
(***************************************************************************)
read_first_line_of_file2(s) ==
    LET rd == read_next_line_of_input(s.file2, s.pos2, 0)
        t  == [s EXCEPT !.line_f2 = rd.line, !.pos2 = rd.pos,
                        !.line_count_f2 = rd.line_count]
    IN  IF rd.line = EmptyString
        THEN sys_exit(t, 100,
                      ErrorAt("unexpected_end_of_input", rd.line_count))
        ELSE [t EXCEPT !.line_count_f2_last_chunk_end = 0,
                       !.block_count_f2 = 0, !.z = 0, !.pc = "chunk"]

(* the range taken up to and including its stop *)
range_includes_stop(zz, stop, step) ==
    IF step > 0 THEN zz <= stop ELSE zz >= stop

(***************************************************************************)
(* for z in range(0, z_count, parent_size_z): chunk_list = []              *)
(* s.z is the value the range gives next; a step of 0 raises ValueError.   *)
(***************************************************************************)
range_has_next(zz, stop, step) ==
    IF step > 0 THEN zz < stop ELSE zz > stop

next_chunk(s) ==
    IF s.parent_size_z = 0
    THEN sys_exit(s, 1, ErrorAt("ValueError", 0))
    ELSE IF range_has_next(s.z, s.z_count, s.parent_size_z)
    THEN [s EXCEPT !.chunk_list = << >>, !.pc = "assemble"]
    ELSE [s EXCEPT !.pc = "result"]

(***************************************************************************)
(* The sub-blocks of one block, in the order of the three nested loops     *)
(* (sz outermost, sx innermost).                                           *)
(***************************************************************************)
explode(p, line_count) ==
    [ i \in 1 .. (p.xs * p.ys * p.zs) |->
        [ x |-> p.x + ((i - 1) % p.xs),
          y |-> p.y + (((i - 1) \div p.xs) % p.ys),
          z |-> p.z + ((i - 1) \div (p.xs * p.ys)),
          domain |-> p.domain,
          line |-> line_count ] ]

(* the sort key taken as itemgetter(0,1,2) *)
key_le_xyz(a, b) ==
    \/ a.x < b.x
    \/ a.x = b.x /\ a.y < b.y
    \/ a.x = b.x /\ a.y = b.y /\ a.z <= b.z

(* chunk_list.sort(key=itemgetter(2,1,0)): a stable sort on (z, y, x).     *)
key_le(a, b) ==
    \/ a.z < b.z
    \/ a.z = b.z /\ a.y < b.y
    \/ a.z = b.z /\ a.y = b.y /\ a.x <= b.x

RECURSIVE insert_sorted(_, _)
insert_sorted(sorted, e) ==
    IF sorted = << >> THEN << e >>
    ELSE IF key_le(sorted[Len(sorted)], e) THEN Append(sorted, e)
    ELSE Append(insert_sorted(SubSeq(sorted, 1, Len(sorted) - 1), e),
                sorted[Len(sorted)])

RECURSIVE sort_from(_, _, _)
sort_from(list, i, acc) ==
    IF i > Len(list) THEN acc
    ELSE sort_from(list, i + 1, insert_sorted(acc, list[i]))

sort_chunk(list) == sort_from(list, 1, << >>)

(* the range left where it is when the chunk comes out empty *)
end_of_chunk_same_z(s) ==
    LET sorted == sort_chunk(s.chunk_list)
    IN  IF sorted = << >>
        THEN [s EXCEPT !.chunk_list = sorted, !.e_idx = 0, !.pc = "chunk"]
        ELSE [s EXCEPT !.chunk_list = sorted, !.e_idx = 1, !.pc = "check"]

(* The end of the while loop: the chunk is sorted and the for loop over it *)
(* starts; over an empty chunk it ends at once and the range gives the     *)
(* next z.                                                                 *)
end_of_chunk(s) ==
    LET sorted == sort_chunk(s.chunk_list)
    IN  IF sorted = << >>
        THEN [s EXCEPT !.chunk_list = sorted, !.e_idx = 0,
                       !.z = s.z + s.parent_size_z, !.pc = "chunk"]
        ELSE [s EXCEPT !.chunk_list = sorted, !.e_idx = 1, !.pc = "check"]

(* the far end of the block taken one cell too far *)
crosses_off_by_one(a, size, parent) ==
    (a \div parent) # ((a + size) \div parent)

(* x2 // parent_size_x != (x2 + xs2 - 1) // parent_size_x *)
crosses(a, size, parent) == (a \div parent) # ((a + size - 1) \div parent)

(* the first slice of the next chunk taken into this one *)
in_next_chunk_off_by_one(z2, zz, psz) == z2 > zz + psz

(* elif z2 > z + parent_size_z - 1: the block is from the next chunk *)
in_next_chunk(z2, zz, psz) == z2 > zz + psz - 1

(* the check that keeps a block of a finished chunk out left off *)
in_earlier_chunk_unchecked(z2, zz) == FALSE

(* if z2 < z: the block belongs to a chunk already compared *)
in_earlier_chunk(z2, zz) == z2 < zz

(* the count taken inside the loops of the explosion, once per cell *)
count_cells(count, p) == count + p.xs * p.ys * p.zs

(* block_count_f2 += 1, once for the block whatever its size *)
count_block(count, p) == count + 1

(***************************************************************************)
(* One pass of the while True loop of a chunk: parse the current line of   *)
(* file2, check it, and either fail, end the chunk, or explode the block   *)
(* and read the next line.                                                 *)
(***************************************************************************)
assemble_block(s) ==
    LET p == parse_line(s.line_f2, s.line_count_f2, s.parent_size_x,
                        s.parent_size_y, s.parent_size_z)
    IN  IF ~p.ok THEN sys_exit(s, 1, p.err)
        ELSE IF in_earlier_chunk(p.z, s.z)
        THEN sys_exit(s, 1, ErrorAt("earlier_chunk", s.line_count_f2))
        ELSE IF s.parent_size_x = 0
        THEN sys_exit(s, 1, ErrorAt("ZeroDivisionError", s.line_count_f2))
        ELSE IF crosses(p.x, p.xs, s.parent_size_x)
        THEN sys_exit(s, 1, ErrorAt("crosses_x", s.line_count_f2))
        ELSE IF s.parent_size_y = 0
        THEN sys_exit(s, 1, ErrorAt("ZeroDivisionError", s.line_count_f2))
        ELSE IF crosses(p.y, p.ys, s.parent_size_y)
        THEN sys_exit(s, 1, ErrorAt("crosses_y", s.line_count_f2))
        ELSE IF crosses(p.z, p.zs, s.parent_size_z)
        THEN sys_exit(s, 1, ErrorAt("crosses_z", s.line_count_f2))
        ELSE IF in_next_chunk(p.z, s.z, s.parent_size_z)
        THEN end_of_chunk(
                 [s EXCEPT !.line_count_f2_last_chunk_end = s.line_count_f2])
        ELSE LET rd == read_next_line_of_input(s.file2, s.pos2,
                                               s.line_count_f2)
                 t  == [s EXCEPT
                          !.block_count_f2 = count_block(@, p),
                          !.chunk_list = @ \o explode(p, s.line_count_f2),
                          !.line_f2 = rd.line, !.pos2 = rd.pos,
                          !.line_count_f2 = rd.line_count]
             IN  IF rd.line = EmptyString THEN end_of_chunk(t) ELSE t

(***************************************************************************)
(* One pass of "for e in chunk_list": the next line of file1 is read and   *)
(* compared with the sub-block e.                                          *)
(***************************************************************************)
check_block(s) ==
    LET e  == s.chunk_list[s.e_idx]
        rd == read_next_line_of_input(s.file1, s.pos1, s.line_count_f1)
        t  == [s EXCEPT !.line_f1 = rd.line, !.pos1 = rd.pos,
                        !.line_count_f1 = rd.line_count]
        p  == parse_line(rd.line, rd.line_count, 1, 1, 1)
    IN  IF rd.line = EmptyString
        THEN sys_exit(t, 1, ErrorAt("more_blocks_than_reference", e.line))
        ELSE IF ~p.ok THEN sys_exit(t, 1, p.err)
        ELSE IF e.x # p.x \/ e.y # p.y \/ e.z # p.z
        THEN sys_exit(t, 1, Error("missing_or_duplicated", 0,
                                  <<p.x, p.y, p.z>>, << >>, << >>))
        ELSE IF e.domain # p.domain
        THEN sys_exit(t, 1, Error("domain", e.line, <<p.x, p.y, p.z>>,
                                  e.domain, p.domain))
        ELSE IF s.e_idx = Len(s.chunk_list)
        THEN [t EXCEPT !.e_idx = 0, !.z = s.z + s.parent_size_z,
                       !.pc = "chunk"]
        ELSE [t EXCEPT !.e_idx = s.e_idx + 1]

(***************************************************************************)
(* After the last chunk: the compression is computed and printed.  The     *)
(* quotient is kept as the pair of its numerator and denominator.          *)
(***************************************************************************)
print_result(s) ==
    IF s.block_count_f1 = 0
    THEN sys_exit(s, 1, ErrorAt("ZeroDivisionError", 0))
    ELSE [s EXCEPT !.stdout = Append(@,
                        [num |-> s.block_count_f1 - s.block_count_f2,
                         den |-> s.block_count_f1]),
                   !.exit_status = 0, !.pc = "done"]

(***************************************************************************)
(* The inputs.  A reference file is the header followed by one unit block  *)
(* per grid cell in ascending (z, y, x) order; the domains follow one of   *)
(* two patterns.  A candidate file is any sequence of at most MaxLines     *)
(* lines of CandLines.  One header describes an empty grid (z_count = 0),  *)
(* and DefectiveRefFiles are reference files the script is not promised:   *)
(* one that ends early, one with a block of size 0 and one with a block of *)
(* size 2.                                                                 *)
(***************************************************************************)
Headers == { <<2, 1, 3, 2, 1, 2>>, <<2, 1, 1, 2, 1, 1>>, <<2, 1, 0, 2, 1, 1>> }

Patterns == { "uniform", "layered" }

RefDomain(pat, zz) ==
    IF pat = "layered" /\ zz % 2 = 1 THEN << "b" >> ELSE << "'", "a", "'" >>

UnitBlocks(h, pat) ==
    [ i \in 1 .. (h[1] * h[2] * h[3]) |->
        DataLine((i - 1) % h[1], ((i - 1) \div h[1]) % h[2],
                 (i - 1) \div (h[1] * h[2]), 1, 1, 1,
                 RefDomain(pat, (i - 1) \div (h[1] * h[2]))) ]

(* the uniform files carry a comment line after the first block *)
RefFile(h, pat) ==
    LET blocks == UnitBlocks(h, pat)
    IN  IF pat = "uniform" /\ Len(blocks) > 0
        THEN << HeaderLine(h), blocks[1], CommentLine >> \o Tail(blocks)
        ELSE << HeaderLine(h) >> \o blocks

DefectiveRefFiles ==
    { << HeaderLine(<<2, 1, 1, 2, 1, 1>>),
         DataLine(0, 0, 0, 1, 1, 1, << "a" >>) >>,
      << HeaderLine(<<2, 1, 1, 2, 1, 1>>),
         DataLine(0, 0, 0, 0, 1, 1, << "a" >>),
         DataLine(1, 0, 0, 1, 1, 1, << "a" >>) >>,
      << HeaderLine(<<2, 1, 1, 2, 1, 1>>),
         DataLine(0, 0, 0, 1, 1, 1, << "a" >>),
         DataLine(1, 0, 0, 2, 1, 1, << "a" >>) >> }

RefFiles ==
    { RefFile(h, pat) : h \in Headers, pat \in Patterns }
        \cup DefectiveRefFiles

CandLines ==
    { DataLine(0, 0, 0, 2, 1, 2, << "a" >>),
      DataLine(0, 0, 2, 2, 1, 1, << "a" >>),
      DataLine(0, 0, 0, 2, 1, 1, << "'", "a", "'" >>),
      DataLine(0, 0, 1, 2, 1, 1, << "b" >>),
      DataLine(0, 0, 0, 1, 1, 1, << "a" >>),
      DataLine(1, 0, 0, 1, 1, 1, << "b" >>),
      DataLine(1, 0, 4, 0, 1, 1, << "a" >>),
      DataLine(1, 0, 0, 0, 1, 1, << "a" >>),
      DataLine(1, 0, 0, 2, 1, 1, << "a" >>),
      DataLine(0, 0, 1, 1, 1, 2, << "a" >>),
      DataLine(0, 0, 0, 1, 0, 1, << "a" >>),
      DataLine(0, 0, 0, 1, 1, -1, << "a" >>),
      CommentLine }

SeqsUpTo(S, n) == UNION { [1 .. m -> S] : m \in 0 .. n }

CandFiles == SeqsUpTo(CandLines, MaxLines)

(***************************************************************************)
(* The state when the two files have been opened (lines 302-305).          *)
(***************************************************************************)
Opened(f1, f2) ==
    [ file1 |-> f1, file2 |-> f2, pos1 |-> 0, pos2 |-> 0,
      x_count |-> 0, y_count |-> 0, z_count |-> 0,
      parent_size_x |-> 0, parent_size_y |-> 0, parent_size_z |-> 0,
      block_count_f1 |-> 0, block_count_f2 |-> 0,
      line_f1 |-> EmptyString, line_count_f1 |-> 1,
      line_f2 |-> EmptyString, line_count_f2 |-> 0,
      line_count_f2_last_chunk_end |-> 0,
      z |-> 0, chunk_list |-> << >>, e_idx |-> 0,
      stdout |-> << >>, stderr |-> << >>, exit_status |-> -1,
      pc |-> "header" ]

Starts(t) ==
    /\ file1 = t.file1 /\ file2 = t.file2
    /\ pos1 = t.pos1 /\ pos2 = t.pos2
    /\ x_count = t.x_count /\ y_count = t.y_count /\ z_count = t.z_count
    /\ parent_size_x = t.parent_size_x
    /\ parent_size_y = t.parent_size_y
    /\ parent_size_z = t.parent_size_z
    /\ block_count_f1 = t.block_count_f1
    /\ block_count_f2 = t.block_count_f2
    /\ line_f1 = t.line_f1 /\ line_count_f1 = t.line_count_f1
    /\ line_f2 = t.line_f2 /\ line_count_f2 = t.line_count_f2
    /\ line_count_f2_last_chunk_end = t.line_count_f2_last_chunk_end
    /\ z = t.z /\ chunk_list = t.chunk_list /\ e_idx = t.e_idx
    /\ stdout = t.stdout /\ stderr = t.stderr
    /\ exit_status = t.exit_status /\ pc = t.pc

Init == \E f1 \in RefFiles, f2 \in CandFiles : Starts(Opened(f1, f2))

GetHeader == pc = "header" /\ Becomes(get_header_info_of_file1(State))

ReadFirstLine == pc = "first" /\ Becomes(read_first_line_of_file2(State))

NextChunk == pc = "chunk" /\ Becomes(next_chunk(State))

AssembleBlock == pc = "assemble" /\ Becomes(assemble_block(State))

CheckBlock == pc = "check" /\ Becomes(check_block(State))

PrintResult == pc = "result" /\ Becomes(print_result(State))

Next ==
    \/ GetHeader
    \/ ReadFirstLine
    \/ NextChunk
    \/ AssembleBlock
    \/ CheckBlock
    \/ PrintResult

Spec == Init /\ [][Next]_vars

(***************************************************************************)
(* The script is one sequential process with no input but its two files:   *)
(* the interpreter takes the next step whenever there is one.  That is     *)
(* weak fairness of Next, WF_vars(Next), written here as the disjunction   *)
(* it stands for,                                                          *)
(*     []<>(~ENABLED <<Next>>_vars) \/ []<><<Next>>_vars,                   *)
(* with the states where no step is enabled given by name: each of the six *)
(* steps is a total function of the state at its pc, so that a step is     *)
(* enabled exactly where the script has not exited.  The runs followed to  *)
(* their end are those of the candidate files made of the lines of         *)
(* FairCandLines: blocks that fill a chunk, a partial and a crossing       *)
(* block, a block beyond the last chunk, and a comment.                    *)
(***************************************************************************)
FairCandLines ==
    { DataLine(0, 0, 0, 2, 1, 2, << "a" >>),
      DataLine(0, 0, 2, 2, 1, 1, << "a" >>),
      DataLine(0, 0, 0, 2, 1, 1, << "'", "a", "'" >>),
      DataLine(0, 0, 0, 1, 1, 1, << "a" >>),
      DataLine(0, 0, 1, 1, 1, 2, << "a" >>),
      DataLine(1, 0, 4, 0, 1, 1, << "a" >>),
      CommentLine }

FairCandFiles == SeqsUpTo(FairCandLines, MaxLines)

FairInit ==
    \E f1 \in RefFiles, f2 \in FairCandFiles : Starts(Opened(f1, f2))

Exited == pc \in {"done", "failed"}

FairSpec ==
    /\ FairInit
    /\ [][Next]_vars
    /\ ([]<>Exited \/ []<><<Next>>_vars)

(***************************************************************************)
(* The whole run as a function of the two files: the steps above, applied  *)
(* until the script exits.                                                 *)
(***************************************************************************)
step(s) ==
    CASE s.pc = "header"   -> get_header_info_of_file1(s)
      [] s.pc = "first"    -> read_first_line_of_file2(s)
      [] s.pc = "chunk"    -> next_chunk(s)
      [] s.pc = "assemble" -> assemble_block(s)
      [] s.pc = "check"    -> check_block(s)
      [] s.pc = "result"   -> print_result(s)

RECURSIVE run_from(_)
run_from(s) == IF s.pc \in {"done", "failed"} THEN s ELSE run_from(step(s))

run(f1, f2) == run_from(Opened(f1, f2))

(***************************************************************************)
(* Vocabulary of the properties: the two files as block models.            *)
(***************************************************************************)
Terminated == pc \in {"done", "failed"}

Hdr == file1[1].ints

GridCount == Hdr[1] * Hdr[2] * Hdr[3]

IsBlock(l) == l.k = "data" /\ Len(l.ints) = 6

Blocks(f) == SelectSeq(f, IsBlock)

(* the unit cells <<x, y, z, domain>> a block stands for *)
CellsOf(l) ==
    IF l.ints[4] > 0 /\ l.ints[5] > 0 /\ l.ints[6] > 0
    THEN [ i \in 1 .. (l.ints[4] * l.ints[5] * l.ints[6]) |->
            << l.ints[1] + ((i - 1) % l.ints[4]),
               l.ints[2] + (((i - 1) \div l.ints[4]) % l.ints[5]),
               l.ints[3] + ((i - 1) \div (l.ints[4] * l.ints[5])),
               strip(l.dom) >> ]
    ELSE << >>

RECURSIVE CellsOfAll(_)
CellsOfAll(bs) ==
    IF bs = << >> THEN << >> ELSE CellsOf(Head(bs)) \o CellsOfAll(Tail(bs))

CandidateCells == CellsOfAll(Blocks(file2))

ReferenceCells == CellsOfAll(Blocks(Tail(file1)))

Count(seq, v) == Cardinality({ i \in DOMAIN seq : seq[i] = v })

SameBag(a, b) ==
    /\ Len(a) = Len(b)
    /\ \A v \in Range(a) : Count(a, v) = Count(b, v)

Coord(c) == << c[1], c[2], c[3] >>

(* file1 is a header of positive integers followed by every grid cell once, *)
(* as a unit block, in ascending (z, y, x) order                           *)
ValidReference ==
    /\ Len(file1) >= 1
    /\ file1[1].k = "header"
    /\ Len(Hdr) = 6
    /\ \A i \in 1 .. 6 : Hdr[i] > 0
    /\ \A i \in 2 .. Len(file1) : file1[i].k \in {"data", "comment"}
    /\ LET bs == Blocks(Tail(file1))
       IN  /\ Len(bs) = GridCount
           /\ \A i \in 1 .. Len(bs) :
                 bs[i].ints = << (i - 1) % Hdr[1],
                                 ((i - 1) \div Hdr[1]) % Hdr[2],
                                 (i - 1) \div (Hdr[1] * Hdr[2]), 1, 1, 1 >>

Slab(a, parent) == a \div parent

CrossesBoundary(a, size, parent) ==
    Slab(a, parent) # Slab(a + size - 1, parent)

CrossesAny(l) ==
    \/ CrossesBoundary(l.ints[1], l.ints[4], Hdr[4])
    \/ CrossesBoundary(l.ints[2], l.ints[5], Hdr[5])
    \/ CrossesBoundary(l.ints[3], l.ints[6], Hdr[6])

(* sizes as the candidate reader accepts them *)
SizesAccepted(l) ==
    \A a \in 1 .. 3 : l.ints[3 + a] >= 0 /\ l.ints[3 + a] <= Hdr[3 + a]

(* the blocks of file2 come by non-decreasing slab *)
InSlabOrder ==
    LET bs == Blocks(file2)
    IN  \A i, j \in 1 .. Len(bs) :
            i < j => Slab(bs[i].ints[3], Hdr[6]) <= Slab(bs[j].ints[3], Hdr[6])

(* the compression printed is the quotient num / den *)
Printed(num, den) ==
    /\ Len(stdout) = 1
    /\ stdout[1].num * den = num * stdout[1].den

(***************************************************************************)
(* C1: whenever the run ends in success, the unit cells obtained by        *)
(* exploding every block of the candidate file are exactly the unit blocks *)
(* of the reference file, each paired once with the same domain.           *)
(***************************************************************************)
C1_SuccessMeansEquivalent ==
    (pc = "done" /\ ValidReference) => SameBag(CandidateCells, ReferenceCells)

(***************************************************************************)
(* C2: for a valid reference and a candidate of parent-aligned blocks in   *)
(* non-decreasing slab order whose exploded cells are exactly the          *)
(* reference cells, the run ends in success and prints                     *)
(* (reference count - number of candidate blocks) / reference count.       *)
(***************************************************************************)
ValidCandidate ==
    /\ \A i \in 1 .. Len(file2) : file2[i].k \in {"data", "comment"}
    /\ \A i \in 1 .. Len(file2) :
          IsBlock(file2[i]) => SizesAccepted(file2[i]) /\ ~CrossesAny(file2[i])
    /\ InSlabOrder
    /\ SameBag(CandidateCells, ReferenceCells)

C2_ValidPairSucceeds ==
    (Terminated /\ ValidReference /\ ValidCandidate) =>
        /\ pc = "done"
        /\ Printed(GridCount - Len(Blocks(file2)), GridCount)

(***************************************************************************)
(* C3: a candidate file that contains a block crossing a parent boundary   *)
(* on some axis ends in Failed with a parent-boundary-crossing error.      *)
(***************************************************************************)
CrossingKinds == {"crosses_x", "crosses_y", "crosses_z"}

FirstCrossingAxis(l) ==
    IF CrossesBoundary(l.ints[1], l.ints[4], Hdr[4]) THEN "crosses_x"
    ELSE IF CrossesBoundary(l.ints[2], l.ints[5], Hdr[5]) THEN "crosses_y"
    ELSE "crosses_z"

ParsedCrossing ==
    /\ pc = "assemble"
    /\ IsBlock(line_f2)
    /\ SizesAccepted(line_f2)
    /\ line_f2.ints[3] >= z
    /\ CrossesAny(line_f2)

NoCellTwice ==
    LET cells == CandidateCells
    IN  Cardinality({ Coord(cells[i]) : i \in 1 .. Len(cells) }) = Len(cells)

PartialCandidate ==
    /\ \A i \in 1 .. Len(file2) :
          /\ IsBlock(file2[i])
          /\ SizesAccepted(file2[i])
          /\ \A a \in 4 .. 6 : file2[i].ints[a] >= 1
          /\ ~CrossesAny(file2[i])
    /\ InSlabOrder
    /\ NoCellTwice
    /\ Len(CandidateCells) < GridCount
    /\ Range(CandidateCells) =
          { ReferenceCells[i] : i \in 1 .. Len(CandidateCells) }

C4_ShortCandidateFails100 ==
    (Terminated /\ ValidReference /\ PartialCandidate) =>
        /\ pc = "failed"
        /\ exit_status = 100
        /\ Len(stderr) = 1
        /\ stderr[1].kind = "unexpected_end_of_input"

(***************************************************************************)
(* C5: a candidate file in which a block of slab j comes after a block of  *)
(* a later slab k > j ends in Failed.  Stated for the candidates whose     *)
(* blocks each pass the size and parent boundary checks.                   *)
(***************************************************************************)
C5_OutOfSlabOrderFails ==
    (/\ Terminated
     /\ ValidReference
     /\ \A i \in 1 .. Len(file2) :
           IsBlock(file2[i]) /\ SizesAccepted(file2[i]) /\ ~CrossesAny(file2[i])
     /\ ~InSlabOrder)
    => pc = "failed"

(***************************************************************************)
(* C6: two candidate files that differ by a permutation of blocks inside   *)
(* one run of blocks of the same slab have the same outcome against the    *)
(* same reference and, on success, the same compression.  Stated for the   *)
(* exchange of two neighbouring blocks, which generate the permutations.   *)
(***************************************************************************)
Swap(f, i) ==
    [ j \in 1 .. Len(f) |->
        IF j = i THEN f[i + 1] ELSE IF j = i + 1 THEN f[i] ELSE f[j] ]

SameSlab(a, b) == Slab(a.ints[3], Hdr[6]) = Slab(b.ints[3], Hdr[6])

C6_SlabPermutationInvariant ==
    (Terminated /\ ValidReference) =>
        \A i \in 1 .. (Len(file2) - 1) :
            (IsBlock(file2[i]) /\ IsBlock(file2[i + 1])
               /\ SameSlab(file2[i], file2[i + 1]))
            => LET r == run(file1, Swap(file2, i))
               IN  r.pc = pc /\ (pc = "done" => r.stdout = stdout)

(***************************************************************************)
(* C7: a candidate file with an exploded sub-block whose domain differs    *)
(* from the reference domain of its cell ends in Failed with a domain      *)
(* mismatch error naming that cell and both domains.                       *)
(***************************************************************************)
RefDomainAt(xyz) ==
    (CHOOSE r \in Range(ReferenceCells) : Coord(r) = xyz)[4]

Mismatched ==
    { c \in Range(CandidateCells) :
        \E r \in Range(ReferenceCells) : Coord(r) = Coord(c) /\ r[4] # c[4] }

C7_MismatchAlwaysReported ==
    (Terminated /\ ValidReference /\ Mismatched # {}) =>
        /\ pc = "failed"
        /\ Len(stderr) = 1
        /\ stderr[1].kind = "domain"
        /\ \E c \in Mismatched :
              /\ stderr[1].cell = Coord(c)
              /\ stderr[1].cand = c[4]
              /\ stderr[1].ref = RefDomainAt(Coord(c))

(***************************************************************************)
(* C7, amended: when the candidate is sound but for its domains            *)
(* (parent-aligned blocks of accepted sizes in non-decreasing slab order   *)
(* whose exploded cells cover every grid cell exactly once) and some       *)
(* exploded sub-block has a domain other than the reference's, the run     *)
(* ends in Failed with exit status 1 and the one domain mismatch error     *)
(* that names the first such cell in (z, y, x) order, the candidate's      *)
(* domain and line, and the reference's domain.                            *)
(***************************************************************************)
Coords(cells) == [ i \in 1 .. Len(cells) |-> Coord(cells[i]) ]

CoversGridOnce ==
    /\ \A i \in 1 .. Len(file2) : file2[i].k \in {"data", "comment"}
    /\ \A i \in 1 .. Len(file2) :
          IsBlock(file2[i]) => SizesAccepted(file2[i]) /\ ~CrossesAny(file2[i])
    /\ InSlabOrder
    /\ LET cand == Coords(CandidateCells)
           ref  == Coords(ReferenceCells)
       IN  SameBag(cand, ref)

ZYX_Before(a, b) ==
    \/ a[3] < b[3]
    \/ a[3] = b[3] /\ a[2] < b[2]
    \/ a[3] = b[3] /\ a[2] = b[2] /\ a[1] < b[1]

FirstMismatch ==
    CHOOSE c \in Mismatched :
        \A d \in Mismatched : d = c \/ ZYX_Before(c, d)

LineOfCell(c) ==
    CHOOSE i \in 1 .. Len(file2) :
        IsBlock(file2[i]) /\ c \in Range(CellsOf(file2[i]))

C7_FirstMismatchReported ==
    (Terminated /\ ValidReference /\ CoversGridOnce /\ Mismatched # {}) =>
        /\ pc = "failed"
        /\ exit_status = 1
        /\ stderr = << Error("domain", LineOfCell(FirstMismatch),
                             Coord(FirstMismatch), FirstMismatch[4],
                             RefDomainAt(Coord(FirstMismatch))) >>

C7_Witness ==
    /\ pc = "failed"
    /\ ValidReference
    /\ CoversGridOnce
    /\ Mismatched # {}
    /\ Len(stderr) = 1
    /\ stderr[1].kind = "domain"
    /\ Len(Blocks(file2)) >= 2

(***************************************************************************)
(* C8: on every successful run the compression printed is at least 0 and   *)
(* less than 1, i.e. 1 <= block_count_f2 <= block_count_f1.                *)
(***************************************************************************)
C8_CompressionInUnitInterval ==
    pc = "done" =>
        /\ 1 <= block_count_f2
        /\ block_count_f2 <= block_count_f1
        /\ Len(stdout) = 1
        /\ stdout[1].den > 0
        /\ 0 <= stdout[1].num
        /\ stdout[1].num < stdout[1].den

C10_ChunkBounded ==
    Len(chunk_list) <= x_count * y_count * parent_size_z

(***************************************************************************)
(* C10, amended: the bound holds for every candidate file whose exploded   *)
(* cells lie inside the grid in x and y and are pairwise distinct;         *)
(* duplicated or overlapping blocks are all resident until the chunk is    *)
(* compared.                                                               *)
(***************************************************************************)
HeaderPositive ==
    /\ Len(file1) >= 1
    /\ file1[1].k = "header"
    /\ Len(Hdr) = 6
    /\ \A i \in 1 .. 6 : Hdr[i] > 0

DisjointInGrid ==
    LET cells == CandidateCells
    IN  /\ \A i \in 1 .. Len(cells) :
              /\ cells[i][1] \in 0 .. (Hdr[1] - 1)
              /\ cells[i][2] \in 0 .. (Hdr[2] - 1)
        /\ NoCellTwice

(* an implication from the candidate's being disjoint to the bound, read   *)
(* from the bound's side: a list over the bound has an overlap             *)
C10_DisjointChunkBounded ==
    HeaderPositive =>
        \/ Len(chunk_list) <= Hdr[1] * Hdr[2] * Hdr[6]
        \/ ~DisjointInGrid

C10_Witness ==
    /\ HeaderPositive
    /\ DisjointInGrid
    /\ pc = "check"
    /\ Len(chunk_list) = Hdr[1] * Hdr[2] * Hdr[6]
    /\ Len(Blocks(file2)) >= 2

(***************************************************************************)
(* C11: a candidate file holding a block whose box lies partly or wholly   *)
(* outside the grid of the header never ends in success.                   *)
(***************************************************************************)
OutsideGrid(l) ==
    /\ IsBlock(l)
    /\ \A i \in 4 .. 6 : l.ints[i] >= 1
    /\ \E i \in 1 .. 3 :
          l.ints[i] < 0 \/ l.ints[i] + l.ints[i + 3] > Hdr[i]

C11_OutsideGridNeverSucceeds ==
    (ValidReference /\ \E i \in 1 .. Len(file2) : OutsideGrid(file2[i]))
        => pc # "done"

(***************************************************************************)
(* C12: block_count_f2 is the number of candidate blocks exploded so far.  *)
(* It grows by exactly one in the step that explodes a block, whatever the *)
(* number of cells of the block, and in no other step; the block exploded  *)
(* is the pending line and starts inside the chunk being assembled, and    *)
(* the line then pending is a later one, so that no block is exploded      *)
(* twice; a block that ends a chunk stays pending, neither exploded nor    *)
(* counted, in that step.                                                  *)
(***************************************************************************)
RecordsRead == Cardinality({ i \in 1 .. pos2 : file2[i].k = "data" })

RecordPending == IF line_f2.k = "data" THEN 1 ELSE 0

NoOfCells(l) == l.ints[4] * l.ints[5] * l.ints[6]

Exploding ==
    /\ pc = "assemble"
    /\ pos2 \in 1 .. Len(file2)
    /\ line_f2 = file2[pos2]
    /\ IsBlock(line_f2)
    /\ z <= line_f2.ints[3]
    /\ line_f2.ints[3] < z + parent_size_z
    /\ block_count_f2' = block_count_f2 + 1
    /\ Len(chunk_list') = Len(chunk_list) + NoOfCells(line_f2)
    /\ \/ pos2' > pos2 /\ line_f2' = file2[pos2']
       \/ line_f2' = EmptyString

CarryingOver ==
    /\ block_count_f2' = block_count_f2
    /\ Len(chunk_list') = Len(chunk_list)
    /\ pos2' = pos2
    /\ line_f2' = line_f2

C12_CountsExplodedRecords ==
    /\ [](pc \notin {"header", "first"} =>
            block_count_f2 = RecordsRead - RecordPending)
    /\ [][ /\ (block_count_f2' # block_count_f2) => Exploding
           /\ (Len(chunk_list') > Len(chunk_list)) => Exploding
           /\ (pc = "assemble" /\ pc' # "failed" /\ line_f2'.k = "data"
                   /\ pc' # "assemble")
                 => CarryingOver ]_vars

C12_Witness ==
    /\ pc = "assemble"
    /\ z > 0
    /\ line_count_f2_last_chunk_end > 0
    /\ block_count_f2 = 2
    /\ Len(chunk_list) = 2
    /\ NoOfCells(file2[1]) = 4
    /\ line_f2.k = "data"

(***************************************************************************)
(* C13: the comparison reads exactly one reference record for each         *)
(* sub-block of the sorted chunk, the next one of the file and no further, *)
(* so that the reference records read are as many as the sub-blocks        *)
(* compared so far, at all times and in particular after each chunk; when  *)
(* no reference record is left for a sub-block the run fails with "more    *)
(* blocks than reference", naming the candidate line of the sub-block.     *)
(***************************************************************************)
RefRecordsRead == Cardinality({ i \in 2 .. pos1 : file1[i].k = "data" })

RECURSIVE SumOfCells(_, _)
SumOfCells(f, n) ==
    IF n = 0 THEN 0
    ELSE SumOfCells(f, n - 1) + (IF f[n].k = "data" THEN NoOfCells(f[n]) ELSE 0)

CellsExploded ==
    IF line_f2.k = "data" THEN SumOfCells(file2, pos2 - 1)
    ELSE SumOfCells(file2, pos2)

CellsCompared ==
    CASE pc = "assemble" -> CellsExploded - Len(chunk_list)
      [] pc = "check"    -> CellsExploded - Len(chunk_list) + (e_idx - 1)
      [] OTHER           -> CellsExploded

NextRefRecords == { j \in (pos1 + 1) .. Len(file1) : file1[j].k = "data" }

ComparesNextRecord ==
    IF NextRefRecords # {}
    THEN LET j == CHOOSE k \in NextRefRecords :
                      \A m \in NextRefRecords : k <= m
         IN  /\ pos1' = j
             /\ line_f1' = file1[j]
             /\ pc' # "failed" =>
                   /\ file1[j].ints[1] = chunk_list[e_idx].x
                   /\ file1[j].ints[2] = chunk_list[e_idx].y
                   /\ file1[j].ints[3] = chunk_list[e_idx].z
    ELSE /\ pc' = "failed"
         /\ exit_status' = 1
         /\ stderr' = << ErrorAt("more_blocks_than_reference",
                                 chunk_list[e_idx].line) >>

C13_OneReferenceRecordPerSubBlock ==
    /\ [](pc \in {"chunk", "assemble", "check", "result", "done"} =>
            RefRecordsRead = CellsCompared)
    /\ [][ /\ pc = "check" => ComparesNextRecord
           /\ pc \notin {"check", "header"} => pos1' = pos1 ]_vars

C13_Witness ==
    /\ pc = "failed"
    /\ e_idx \in 2 .. Len(chunk_list)
    /\ stderr = << ErrorAt("more_blocks_than_reference",
                           chunk_list[e_idx].line) >>
    /\ RefRecordsRead = e_idx - 1
    /\ RefRecordsRead = Len(Blocks(Tail(file1)))

(***************************************************************************)
(* C14: a run that has read a reference record whose three sizes are not   *)
(* all exactly 1, a size of 0 included, fails; it never ends in success.   *)
(***************************************************************************)
NonUnit(l) ==
    /\ IsBlock(l)
    /\ \E i \in 4 .. 6 : l.ints[i] # 1

NonUnitRecordRead == \E i \in 2 .. pos1 : NonUnit(file1[i])

C14_NonUnitReferenceFails ==
    (Terminated /\ NonUnitRecordRead) => pc = "failed"

(***************************************************************************)
(* C15: when the header gives x_count * y_count * z_count = 0 the run      *)
(* never comes to the division of the compression, and it ends in a        *)
(* reported failure, not in an arithmetic error.                           *)
(***************************************************************************)
EmptyGrid ==
    /\ file1[1].k = "header"
    /\ Len(Hdr) = 6
    /\ GridCount = 0

C15_EmptyGridNeverDivides ==
    EmptyGrid =>
        /\ pc # "result"
        /\ Terminated =>
              /\ pc = "failed"
              /\ \A i \in 1 .. Len(stderr) :
                    stderr[i].kind # "ZeroDivisionError"

(***************************************************************************)
(* C16: while the chunk with origin z is assembled and compared, every     *)
(* sub-block of chunk_list has its z in [z, z + parent_size_z), so that no *)
(* sub-block of an earlier or a later chunk is resident; and the assembly  *)
(* of each chunk starts from an empty list.                                *)
(***************************************************************************)
InChunk(e) == z <= e.z /\ e.z < z + parent_size_z

C16_ChunkListHoldsOneChunk ==
    /\ [](pc \in {"assemble", "check"} =>
            \A i \in 1 .. Len(chunk_list) : InChunk(chunk_list[i]))
    /\ [][ (pc = "chunk" /\ pc' = "assemble") => chunk_list' = << >> ]_vars

C16_Witness ==
    /\ pc = "check"
    /\ z > 0
    /\ e_idx = 2
    /\ Len(chunk_list) = 2
    /\ \A i \in 1 .. 2 : InChunk(chunk_list[i])
    /\ Len(Blocks(file2)) = 3

(***************************************************************************)
(* C17: with a header of positive integers and two finite files the run    *)
(* ends, in success or in failure.  Every pass of the while loop fails,    *)
(* ends the chunk or reads on in the candidate file; the chunks are the    *)
(* ceil(z_count / parent_size_z) values of z that the range gives, and the *)
(* loop over them is left with z at the end of the last one.  Until the    *)
(* script exits there is always a step to take, one that changes the       *)
(* state.                                                                  *)
(***************************************************************************)
NoOfChunks == (Hdr[3] + Hdr[6] - 1) \div Hdr[6]

C17_Terminates ==
    /\ HeaderPositive => <>Terminated
    /\ [](Terminated \/ step(State) # State)
    /\ [](HeaderPositive =>
            /\ pc \in {"assemble", "check"} =>
                  \E k \in 0 .. (NoOfChunks - 1) : z = k * Hdr[6]
            /\ pc \in {"result", "done"} => z = NoOfChunks * Hdr[6])
    /\ [][ (HeaderPositive /\ pc = "assemble") =>
              \/ pc' = "failed"
              \/ pc' \in {"check", "chunk"}
              \/ pos2' > pos2 /\ pc' = "assemble" ]_vars

C17_Witness ==
    /\ HeaderPositive
    /\ pc = "done"
    /\ NoOfChunks = 2
    /\ pos2 = Len(file2)
    /\ Len(Blocks(file2)) = 3

(***************************************************************************)
(* C18: once the last chunk has been assembled no further line of the      *)
(* candidate file is read.  The first block whose z is at or beyond the    *)
(* end of the last chunk is the last line ever read: the lines after it    *)
(* are never read, exploded or counted, and the run ends with the same     *)
(* exit status, output and messages as the run on the candidate file cut   *)
(* after that block, hence the same for any two candidate files that are   *)
(* equal up to and including it.                                           *)
(***************************************************************************)
LastChunkEnd == NoOfChunks * Hdr[6]

BeyondLastChunk ==
    { i \in 1 .. Len(file2) :
        IsBlock(file2[i]) /\ file2[i].ints[3] >= LastChunkEnd }

FirstBeyond ==
    IF BeyondLastChunk = {} THEN 0
    ELSE CHOOSE i \in BeyondLastChunk : \A j \in BeyondLastChunk : i <= j

SameOutcomeWhenCut ==
    LET r == run(file1, SubSeq(file2, 1, FirstBeyond))
    IN  /\ r.pc = pc
        /\ r.exit_status = exit_status
        /\ r.stdout = stdout
        /\ r.stderr = stderr
        /\ r.block_count_f2 = block_count_f2

C18_NothingReadAfterLastChunk ==
    /\ [](FirstBeyond > 0 =>
            /\ pos2 <= FirstBeyond
            /\ block_count_f2 <= Len(Blocks(SubSeq(file2, 1, FirstBeyond - 1)))
            /\ (Terminated /\ FirstBeyond < Len(file2)) => SameOutcomeWhenCut)
    /\ [](pc = "assemble" => z < LastChunkEnd)
    /\ [][ pc \notin {"first", "assemble"} =>
              (pos2' = pos2 /\ line_f2' = line_f2) ]_vars

C18_Witness ==
    /\ pc = "done"
    /\ ValidReference
    /\ FirstBeyond > 0
    /\ pos2 = FirstBeyond
    /\ line_f2 = file2[FirstBeyond]
    /\ block_count_f2 > 0
    /\ Len(chunk_list) > 0
    /\ \E i \in (FirstBeyond + 1) .. Len(file2) :
          IsBlock(file2[i]) /\ ~SizesAccepted(file2[i])

====
